---- MODULE Spec2Model ----
(***************************************************************************)
(* Model of scraper.py: the periodic SNMP-to-InfluxDB scraper.             *)
(*                                                                         *)
(* main() loads the configuration once, then forever starts one StartPoll  *)
(* thread per configured device and sleeps.  A StartPoll thread selects    *)
(* the protocol, opens an easysnmp Session, and runs pollDevice: walk of   *)
(* ifName, one get per (OID, interface), build of the payload and          *)
(* upload_to_influx, which re-loads the configuration file and writes.     *)
(*                                                                         *)
(* Strings that the code parses (counter values) are sequences of          *)
(* one-character strings, so that int() is computed and not assumed.       *)
(***************************************************************************)
EXTENDS Integers, Sequences, FiniteSets, Bags, TLC

VARIABLES
    mainpc,      \* position of main(): "start", "loop", "exited"
    exitStatus,  \* process exit status once mainpc = "exited", else -1
    DeviceList,  \* Config.from_dict(load_config()).devices.devices, line 301
    file,        \* what the configuration file path currently holds
    tick,        \* number of iterations of the while loop of main() so far
    thr,         \* thr[i]: the bag of the StartPoll threads started for device i
    agent        \* agent[h]: what the SNMP agent of the device named h answers

vars == <<mainpc, exitStatus, DeviceList, file, tick, thr, agent>>

-----------------------------------------------------------------------------
(* Bounds of the model *)

\* ticks of the scheduler loop that are explored
MaxTicks == 2
\* cells (OID, index) of an agent's tables that may be absent
MaxMissing == 2

-----------------------------------------------------------------------------
(* Generic helpers *)

Range(s) == {s[n] : n \in DOMAIN s}

\* The sequences over S of length n with pairwise distinct elements.
RECURSIVE DistinctSeqs(_, _)
DistinctSeqs(S, n) ==
    IF n = 0 THEN {<<>>}
    ELSE UNION {{Append(s, x) : x \in S \ Range(s)} : s \in DistinctSeqs(S, n - 1)}

\* The subsets of S with at most n elements.
SubsetsUpTo(S, n) == {T \in SUBSET S : Cardinality(T) <= n}

-----------------------------------------------------------------------------
(* The ways a call ends *)

Running == [how |-> "running", value |-> "", chain |-> <<>>, code |-> 0]
Return(v) == [how |-> "return", value |-> v, chain |-> <<>>, code |-> 0]
Raise(chain) == [how |-> "raise", value |-> "", chain |-> chain, code |-> 1]
Exit(code, chain) == [how |-> "exit", value |-> "", chain |-> chain, code |-> code]

\* WrapValueError that raises a fresh ValueError and drops what it caught
WrapDropsCause(r) == IF r.how = "raise" THEN Raise(<<"ValueError">>) ELSE r

\* "except Exception as e: raise ValueError(...) from e", lines 193-194, 211-212:
\* an Exception is wrapped, a SystemExit passes through.
WrapValueError(r) == IF r.how = "raise" THEN Raise(<<"ValueError">> \o r.chain) ELSE r

-----------------------------------------------------------------------------
(* Configuration: lines 34-183 *)

\* Keys that Device.from_dict reads from a device entry, lines 52-56.
DeviceKeys == {"hostname", "community", "username", "password", "ip"}
\* Keys that Influxdb.from_dict reads, lines 100-103.
InfluxKeys == {"uri", "username", "password", "database"}
\* Keys that Config.from_dict reads, lines 128-131.
ConfigKeys == {"devices", "influxdb", "default_community"}

\* Device.from_dict: a KeyError when a key it subscripts is absent.
DeviceFromDictOk(device_cfg) == DeviceKeys \subseteq DOMAIN device_cfg

\* Influxdb.from_dict
InfluxFromDictOk(influxdb_cfg) == InfluxKeys \subseteq DOMAIN influxdb_cfg

\* Config.from_dict succeeds (raises no KeyError).
ConfigFromDictOk(cfg) ==
    /\ ConfigKeys \subseteq DOMAIN cfg
    /\ \A n \in DOMAIN cfg.devices : DeviceFromDictOk(cfg.devices[n])
    /\ InfluxFromDictOk(cfg.influxdb)

\* fetch_config_from_disk + load_config on a file: the way the call ends.
\*   "return"  the linted document
\*   "raise"   ConfigFileNotFoundError (an Exception), line 181
\*   "exit"    sys.exit(1) on a YAML error, sys.exit(2) on a lint error
load_config(f) ==
    IF f.kind = "missing"
    THEN Raise(<<"ConfigFileNotFoundError", "FileNotFoundError">>)
    ELSE IF f.kind = "badyaml" THEN Exit(1, <<"SystemExit", "YAMLError">>)
    ELSE IF ~ConfigFromDictOk(f.doc) THEN Exit(2, <<"SystemExit", "KeyError">>)
    ELSE Return("config")

\* The process ends with status 1 on an uncaught exception (the interpreter's
\* default) and with the argument of sys.exit otherwise.
ExitStatusOf(loaded) == loaded.code

Hostnames == {"r1", "r2"}

\* A device entry of the configuration document with every key present.
DeviceDict(h, c, u) ==
    [hostname |-> h, community |-> c, username |-> u,
     password |-> IF u = "" THEN "" ELSE "secret",
     ip |-> IF h = "r1" THEN "10.0.0.1" ELSE "10.0.0.2"]

\* The device entry of the end-to-end scenario: no username, no password key.
E2EDevice == [hostname |-> "r1", community |-> "public", ip |-> "10.0.0.1"]

\* The four ways community and username can be set or empty.
DeviceDicts(h) == {DeviceDict(h, c, u) : c \in {"", "public"}, u \in {"", "admin"}}

InfluxA == [uri |-> "influx-a", username |-> "ua", password |-> "pa", database |-> "snmp"]
InfluxB == [uri |-> "influx-b", username |-> "ub", password |-> "pb", database |-> "snmp"]

Doc(devs, influx) == [devices |-> devs, influxdb |-> influx, default_community |-> "public"]

\* A document that yaml parses and Config.from_dict rejects (no "influxdb").
LintFailDoc == [devices |-> <<>>, default_community |-> "public"]

DocFile(d) == [kind |-> "doc", doc |-> d]
MissingFile == [kind |-> "missing", doc |-> LintFailDoc]
BadYamlFile == [kind |-> "badyaml", doc |-> LintFailDoc]
LintFailFile == DocFile(LintFailDoc)

\* Device.from_dict / Devices.from_dict on a linted document, lines 50-57, 77-80.
DevicesOf(doc) == doc.devices

-----------------------------------------------------------------------------
(* Python helpers *)

Digits == <<"0", "1", "2", "3", "4", "5", "6", "7", "8", "9">>

IsDigit(c) == c \in Range(Digits)

DigitValue(c) == (CHOOSE n \in DOMAIN Digits : Digits[n] = c) - 1

\* int(s) raises ValueError unless s is a non-empty run of decimal digits
\* (the values modelled carry no sign, blank or underscore).
IntRaises(s) == Len(s) = 0 \/ \E n \in DOMAIN s : ~IsDigit(s[n])

RECURSIVE IntOf(_)
IntOf(s) ==
    IF Len(s) = 0 THEN 0
    ELSE 10 * IntOf(SubSeq(s, 1, Len(s) - 1)) + DigitValue(s[Len(s)])

\* "a.b.c".split(".")[-1], on an OID held as the sequence of its components
SplitLast(oid) == oid[Len(oid)]

\* d[key] = value on a dict held as a sequence of [key, value] in insertion
\* order: an existing key keeps its position and takes the new value.
DictSet(d, key, value) ==
    IF \E n \in DOMAIN d : d[n].key = key
    THEN [n \in DOMAIN d |-> IF d[n].key = key THEN [key |-> key, value |-> value] ELSE d[n]]
    ELSE Append(d, [key |-> key, value |-> value])

-----------------------------------------------------------------------------
(* The SNMP agents: what session.walk and session.get answer *)

Indices == {"1", "2"}
Names == {"Gi0/1", "Gi0/2"}

\* _OIDS in its insertion order, lines 225-231
OidNames == <<"_ifHCInOctets", "_ifHCOutOctets", "_ifInErrors", "_ifOutErrors", "_ifDescr">>

\* The keys of _OIDS whose value pollDevice converts with int(), lines 260-263
CounterNames == <<"_ifHCInOctets", "_ifHCOutOctets", "_ifInErrors", "_ifOutErrors">>

\* What easysnmp returns for an instance the agent does not hold (the Session
\* is built without abort_on_nonexistent, lines 189-191 and 200-209).
NOSUCHINSTANCE == <<"N", "O", "S", "U", "C", "H", "I", "N", "S", "T", "A", "N", "C", "E">>

\* The value an agent holds at (oid_name, index) when it holds one: distinct
\* per cell, a decimal counter for the four counters, a text for ifDescr.
Held(oid_name, index) ==
    IF oid_name = "_ifDescr" THEN <<"e", "t", "h", index>>
    ELSE <<Digits[1 + CHOOSE n \in DOMAIN OidNames : OidNames[n] = oid_name], "0", index>>

Cells == {<<OidNames[n], x>> : n \in DOMAIN OidNames, x \in Indices}

\* An agent: the rows of its ifName table in walk order, whether the library
\* splits the index off the OID (oid_index set) or leaves it in the OID, and
\* the cells of the other tables it does not hold, and the values of the cells
\* it holds.
AgentsWith(rowSeqs, splits, missingSets) ==
    {[rows |-> r, split |-> sp, missing |-> m,
      held |-> [c \in Cells |-> Held(c[1], c[2])]] :
        r \in rowSeqs, sp \in splits, m \in missingSets}

\* ifName tables of at most two rows, each index once, names free
RowSeqs ==
    UNION {{[n \in DOMAIN ix |-> [index |-> ix[n], name |-> nm[n]]] :
                nm \in [DOMAIN ix -> Names]} :
             ix \in DistinctSeqs(Indices, 0) \cup DistinctSeqs(Indices, 1)
                    \cup DistinctSeqs(Indices, 2)}

PollAgents == AgentsWith(RowSeqs, BOOLEAN, SubsetsUpTo(Cells, MaxMissing))

\* An agent with two complete interfaces
AgentGood ==
    [rows |-> <<[index |-> "1", name |-> "Gi0/1"], [index |-> "2", name |-> "Gi0/2"]>>,
     split |-> TRUE, missing |-> {}, held |-> [c \in Cells |-> Held(c[1], c[2])]]

\* The agent of the end-to-end scenario: index 1 alone in every table, named
\* Gi0/1 and described Gi0/1, in-octets 1000000, out-octets 2000000, no errors.
E2EAgent ==
    [rows |-> <<[index |-> "1", name |-> "Gi0/1"]>>,
     split |-> TRUE, missing |-> {c \in Cells : c[2] # "1"},
     held |-> [c \in Cells |->
                 IF c[1] = "_ifHCInOctets" THEN <<"1", "0", "0", "0", "0", "0", "0">>
                 ELSE IF c[1] = "_ifHCOutOctets" THEN <<"2", "0", "0", "0", "0", "0", "0">>
                 ELSE IF c[1] = "_ifDescr" THEN <<"G", "i", "0", "/", "1">>
                 ELSE <<"0">>]]

\* session.walk(ifName): the rows as easysnmp variables, line 237
WalkRows(a) ==
    [n \in DOMAIN a.rows |->
        IF a.split
        THEN [oid |-> <<"ifName">>, oid_index |-> a.rows[n].index, value |-> a.rows[n].name]
        ELSE [oid |-> <<"iso", "3", "6", "1", "2", "1", "31", "1", "1", "1", "1", a.rows[n].index>>,
              oid_index |-> "", value |-> a.rows[n].name]]

\* session.get(oid.index).value, line 246
SnmpGet(a, oid_name, index) ==
    IF <<oid_name, index>> \in a.missing THEN NOSUCHINSTANCE ELSE a.held[<<oid_name, index>>]

-----------------------------------------------------------------------------
(* pollDevice, lines 234-267 *)

\* lines 239-241
OidIndexOf(row) == IF row.oid_index # "" THEN row.oid_index ELSE SplitLast(row.oid)

\* lines 236-242: the dict of interfaces keyed by interface.value
RECURSIVE WalkInterfaces(_)
WalkInterfaces(rows) ==
    IF Len(rows) = 0 THEN <<>>
    ELSE DictSet(WalkInterfaces(SubSeq(rows, 1, Len(rows) - 1)),
                 rows[Len(rows)].value,
                 [oid_index |-> OidIndexOf(rows[Len(rows)])])

\* GetAll with the counters of the first interface alone fetched ahead of the
\* build, the others left for later
GetFirstOnly(a, interfaces) ==
    [n \in DOMAIN interfaces |->
        [key |-> interfaces[n].key,
         value |-> IF n = 1
                   THEN [o \in Range(OidNames) |->
                            SnmpGet(a, o, interfaces[n].value.oid_index)]
                        @@ interfaces[n].value
                   ELSE interfaces[n].value]]

\* lines 244-247: every interface's dict updated with every OID's value
GetAll(a, interfaces) ==
    [n \in DOMAIN interfaces |->
        [key |-> interfaces[n].key,
         value |-> [o \in Range(OidNames) |->
                        SnmpGet(a, o, interfaces[n].value.oid_index)]
                   @@ interfaces[n].value]]

\* lines 260-263: one of the four int() calls raises ValueError
ConvertRaises(values) ==
    \E n \in DOMAIN CounterNames : IntRaises(values[CounterNames[n]])

\* lines 251-265: the point of one interface (the wall-clock "time" is left out)
Point(hostname, name, values) ==
    [measurement |-> "interface_stats",
     tags |-> [host |-> hostname, interface |-> name,
               interface_description |-> values["_ifDescr"]],
     fields |-> [ifin |-> IntOf(values["_ifHCInOctets"]),
                 ifout |-> IntOf(values["_ifHCOutOctets"]),
                 ifinerr |-> IntOf(values["_ifInErrors"]),
                 ifouterr |-> IntOf(values["_ifOutErrors"])]]

-----------------------------------------------------------------------------
(* The StartPoll threads, lines 186-212, 234-296 *)

NoClient == [uri |-> "", username |-> "", password |-> "", database |-> ""]

\* A thread that main() has started, line 308
\*   pc          where the thread stands
\*   ran         the calls it has made so far, in order
\*   interfaces  the local dict of pollDevice
\*   payload     the dbpayload handed to upload_to_influx
\*   client      the settings the InfluxDBClient was built with
\*   result      how StartPoll ended
\*   failed      the call in which the failure arose, "none" without one
\*   written     the payloads that write_points accepted
NewThread ==
    [pc |-> "StartPoll", ran |-> <<>>, interfaces |-> <<>>, payload |-> <<>>,
     client |-> NoClient, result |-> Running, failed |-> "none", written |-> <<>>]

Finished(e) == e.pc = "done"

\* The thread ends in call `stage` with result r.
Finish(e, stage, r) ==
    [e EXCEPT !.pc = "done", !.result = r,
              !.failed = IF r.how = "return" THEN "none" ELSE stage]

\* Replace with a failure that takes the running polls of the other devices
\* down with it
ReplaceUnisolated(i, e, e2) ==
    thr' = [j \in DOMAIN thr |->
              IF j = i THEN (thr[j] (-) SetToBag({e})) (+) SetToBag({e2})
              ELSE IF e2.pc = "done" /\ e2.failed # "none"
                   THEN [x \in {y \in BagToSet(thr[j]) : y.pc = "done"} |-> CopiesIn(x, thr[j])]
                   ELSE thr[j]]

\* One thread of device i moves from e to e2.
Replace(i, e, e2) ==
    thr' = [thr EXCEPT ![i] = (@ (-) SetToBag({e})) (+) SetToBag({e2})]

ThreadFrame == UNCHANGED <<mainpc, exitStatus, DeviceList, file, tick, agent>>

\* StartPollChoice with the community tested before the username
StartPollCommunityFirst(device) ==
    IF device.community # "" THEN "SNMPpollv2"
    ELSE IF device.username # "" THEN "SNMPpollv3"
    ELSE "ValueError"

\* StartPoll, lines 292-296: the protocol is chosen, username first.
StartPollChoice(device) ==
    IF device.username # "" THEN "SNMPpollv3"
    ELSE IF device.community # "" THEN "SNMPpollv2"
    ELSE "ValueError"

StartPollStep(i, e) ==
    /\ e.pc = "StartPoll"
    /\ LET choice == StartPollChoice(DeviceList[i])
       IN IF choice = "ValueError"
          THEN Replace(i, e, Finish([e EXCEPT !.ran = <<"StartPoll">>],
                                    "StartPoll", Raise(<<"ValueError">>)))
          ELSE Replace(i, e, [e EXCEPT !.pc = "Session", !.ran = <<"StartPoll", choice>>])
    /\ ThreadFrame

\* How "pollDevice(session, ...)" is entered: SNMPpollv2 passes
\* device_cfg.hostname (line 192); SNMPpollv3 names a variable `hostname`
\* that no scope defines (line 210), a NameError.
PollDeviceCall(proto) ==
    IF proto = "SNMPpollv3" THEN Raise(<<"NameError">>) ELSE Return("entered")

\* Session(...), lines 189-191 and 200-209, then the call of pollDevice
SessionStep(i, e) ==
    /\ e.pc = "Session"
    /\ LET e1 == [e EXCEPT !.ran = Append(@, "Session")]
           call == PollDeviceCall(e.ran[2])
       IN \/ Replace(i, e, Finish(e1, "Session",
                       WrapValueError(Raise(<<"EasySNMPConnectionError">>))))
          \/ IF call.how = "raise"
             THEN Replace(i, e, Finish(e1, e.ran[2], WrapValueError(call)))
             ELSE Replace(i, e, [e1 EXCEPT !.pc = "walk", !.ran = Append(@, "pollDevice")])
    /\ ThreadFrame

\* lines 236-242
WalkStep(i, e) ==
    /\ e.pc = "walk"
    /\ LET e1 == [e EXCEPT !.ran = Append(@, "walk")]
       IN \/ Replace(i, e, Finish(e1, "walk",
                       WrapValueError(Raise(<<"EasySNMPTimeoutError">>))))
          \/ Replace(i, e, [e1 EXCEPT !.pc = "get",
                 !.interfaces = WalkInterfaces(WalkRows(agent[DeviceList[i].hostname]))])
    /\ ThreadFrame

\* lines 244-247: no get is issued for an empty dict
GetStep(i, e) ==
    /\ e.pc = "get"
    /\ IF Len(e.interfaces) = 0
       THEN Replace(i, e, [e EXCEPT !.pc = "build"])
       ELSE LET e1 == [e EXCEPT !.ran = Append(@, "get")]
            IN \/ Replace(i, e, Finish(e1, "get",
                            WrapValueError(Raise(<<"EasySNMPTimeoutError">>))))
               \/ Replace(i, e, [e1 EXCEPT !.pc = "build",
                      !.interfaces = GetAll(agent[DeviceList[i].hostname], e.interfaces)])
    /\ ThreadFrame

\* BuildStep with the upload called after the loop, on whatever was built
BuildUploadsEmpty(i, e) ==
    /\ e.pc = "build"
    /\ IF Len(e.interfaces) = 0
       THEN Replace(i, e, [e EXCEPT !.pc = "load_config",
                                    !.ran = Append(@, "upload_to_influx")])
       ELSE LET e1 == [e EXCEPT !.ran = Append(@, "int")]
                first == e.interfaces[1]
            IN IF ConvertRaises(first.value)
               THEN Replace(i, e, Finish(e1, "int", WrapValueError(Raise(<<"ValueError">>))))
               ELSE Replace(i, e, [e1 EXCEPT !.pc = "load_config",
                        !.ran = Append(@, "upload_to_influx"),
                        !.payload = <<Point(DeviceList[i].hostname, first.key, first.value)>>])
    /\ ThreadFrame

\* lines 249-267: the loop body returns in its first iteration
BuildStep(i, e) ==
    /\ e.pc = "build"
    /\ IF Len(e.interfaces) = 0
       THEN Replace(i, e, Finish(e, "none", Return("None")))
       ELSE LET e1 == [e EXCEPT !.ran = Append(@, "int")]
                first == e.interfaces[1]
            IN IF ConvertRaises(first.value)
               THEN Replace(i, e, Finish(e1, "int", WrapValueError(Raise(<<"ValueError">>))))
               ELSE Replace(i, e, [e1 EXCEPT !.pc = "load_config",
                        !.ran = Append(@, "upload_to_influx"),
                        !.payload = <<Point(DeviceList[i].hostname, first.key, first.value)>>])
    /\ ThreadFrame

\* upload_to_influx, lines 272-280: the file is read again, the client built
LoadConfigStep(i, e) ==
    /\ e.pc = "load_config"
    /\ LET e1 == [e EXCEPT !.ran = Append(@, "load_config")]
           loaded == load_config(file)
       IN IF loaded.how = "return"
          THEN Replace(i, e, [e1 EXCEPT !.pc = "write_points", !.client = file.doc.influxdb])
          ELSE Replace(i, e, Finish(e1, "load_config", WrapValueError(loaded)))
    /\ ThreadFrame

\* What the write can raise
WriteErrors == {"InfluxDBClientError", "ConnectionError"}

\* WritePointsStep with a failed write submitted again
WritePointsRetry(i, e) ==
    /\ e.pc = "write_points"
    /\ LET e1 == [e EXCEPT !.ran = Append(@, "write_points")]
       IN \/ Replace(i, e, Finish([e1 EXCEPT !.written = Append(@, e.payload)],
                                  "none", Return("True")))
          \/ Replace(i, e, e1)
    /\ ThreadFrame

\* lines 282-287: InfluxDBClientError is not imported, so matching the except
\* clause raises NameError while the write's error is being handled.
WritePointsStep(i, e) ==
    /\ e.pc = "write_points"
    /\ LET e1 == [e EXCEPT !.ran = Append(@, "write_points")]
       IN \/ Replace(i, e, Finish([e1 EXCEPT !.written = Append(@, e.payload)],
                                  "none", Return("True")))
          \/ \E x \in WriteErrors :
                Replace(i, e, Finish(e1, "write_points",
                                     WrapValueError(Raise(<<"NameError", x>>))))
    /\ ThreadFrame

\* The InfluxDBClient is built without a timeout (lines 273-280): a write
\* that gets no answer never returns.
BlockStep(i, e) ==
    /\ e.pc = "write_points"
    /\ Replace(i, e, [e EXCEPT !.pc = "blocked", !.ran = Append(@, "write_points")])
    /\ ThreadFrame

-----------------------------------------------------------------------------
(* Vocabulary of the properties *)

\* The threads there are, each with its device: <<i, e>>
AllThreads == UNION {{<<i, e>> : e \in BagToSet(thr[i])} : i \in DOMAIN thr}

\* Number of threads started for device i so far
Launched(i) == BagCardinality(thr[i])

\* Number of threads of bag b that satisfy P
CountIn(b, P(_)) ==
    BagCardinality([e \in {x \in BagToSet(b) : P(x)} |-> CopiesIn(e, b)])

InFlightThread(e) == ~Finished(e)
FailedThread(e) == Finished(e) /\ e.failed # "none"

\* Number of polls of device i that have started and not finished
InFlight(i) == CountIn(thr[i], InFlightThread)

Last(s) == s[Len(s)]

HostAgent(i) == agent[DeviceList[i].hostname]

\* The agent holds a value at index x in every table that pollDevice reads.
Complete(a, x) ==
    /\ \E n \in DOMAIN a.rows : a.rows[n].index = x
    /\ \A n \in DOMAIN OidNames : <<OidNames[n], x>> \notin a.missing

\* The points that the database accepted from thread e
Published(e) == UNION {Range(e.written[n]) : n \in DOMAIN e.written}

-----------------------------------------------------------------------------
(* main(), lines 299-309, and the configuration file *)

\* line 301: the configuration is loaded; a failure ends the process
Startup ==
    /\ mainpc = "start"
    /\ LET loaded == load_config(file)
       IN IF loaded.how = "return"
          THEN /\ mainpc' = "loop"
               /\ DeviceList' = DevicesOf(file.doc)
               /\ thr' = [i \in DOMAIN DevicesOf(file.doc) |-> EmptyBag]
               /\ UNCHANGED exitStatus
          ELSE /\ mainpc' = "exited"
               /\ exitStatus' = ExitStatusOf(loaded)
               /\ UNCHANGED <<DeviceList, thr>>
    /\ UNCHANGED <<file, tick, agent>>

\* TickReady with the threads joined before the next round
TickReadyJoin(limit) ==
    /\ mainpc = "loop"
    /\ tick < limit
    /\ \A i \in DOMAIN thr : InFlight(i) = 0

\* What decides that the loop may start its next round: the sleep of line 309
\* has elapsed, whatever the threads are doing.
TickReady(limit) == mainpc = "loop" /\ tick < limit

\* Tick with a device's poll started only once the polls of the devices
\* before it have ended
TickSequential(limit) ==
    /\ TickReady(limit)
    /\ tick' = tick + 1
    /\ thr' = [i \in DOMAIN thr |->
                 IF \A j \in 1..(i - 1) : InFlight(j) = 0
                 THEN thr[i] (+) SetToBag({NewThread}) ELSE thr[i]]
    /\ UNCHANGED <<mainpc, exitStatus, DeviceList, file, agent>>

\* lines 304-309: one thread per device is created and started, then main sleeps
Tick(limit) ==
    /\ TickReady(limit)
    /\ tick' = tick + 1
    /\ thr' = [i \in DOMAIN thr |-> thr[i] (+) SetToBag({NewThread})]
    /\ UNCHANGED <<mainpc, exitStatus, DeviceList, file, agent>>

\* What the file can be changed to while the scraper runs
EditTargets ==
    {MissingFile, BadYamlFile, LintFailFile,
     DocFile(Doc(<<DeviceDict("r1", "public", "")>>, InfluxB))}

\* The file is rewritten or removed by its owner.  It is read again only by
\* upload_to_influx, so a change is modelled when a thread is about to read it.
EditFile ==
    /\ mainpc = "loop"
    /\ \E i \in DOMAIN thr : \E e \in BagToSet(thr[i]) : e.pc = "load_config"
    /\ file' \in EditTargets \ {file}
    /\ UNCHANGED <<mainpc, exitStatus, DeviceList, tick, thr, agent>>

-----------------------------------------------------------------------------
(* Specifications *)

InitMain ==
    /\ mainpc = "start"
    /\ exitStatus = -1
    /\ DeviceList = <<>>
    /\ tick = 0
    /\ thr = <<>>

\* Two devices: both SNMPv2, or the second one SNMPv3 or unconfigured.
SchedFiles ==
    {DocFile(Doc(<<DeviceDict("r1", "public", ""), d>>, InfluxA)) :
        d \in {DeviceDict("r2", "public", ""), DeviceDict("r2", "public", "admin"),
               DeviceDict("r2", "", "")}}
    \cup {MissingFile, BadYamlFile, LintFailFile}

\* The scheduler with two devices whose agents hold complete tables.
Init ==
    /\ InitMain
    /\ file \in SchedFiles
    /\ agent = [h \in Hostnames |-> AgentGood]

Next ==
    \/ Startup
    \/ Tick(MaxTicks)
    \/ \E i \in DOMAIN thr : \E e \in BagToSet(thr[i]) : StartPollStep(i, e)
    \/ \E i \in DOMAIN thr : \E e \in BagToSet(thr[i]) : SessionStep(i, e)
    \/ \E i \in DOMAIN thr : \E e \in BagToSet(thr[i]) : WalkStep(i, e)
    \/ \E i \in DOMAIN thr : \E e \in BagToSet(thr[i]) : GetStep(i, e)
    \/ \E i \in DOMAIN thr : \E e \in BagToSet(thr[i]) : BuildStep(i, e)
    \/ \E i \in DOMAIN thr : \E e \in BagToSet(thr[i]) : LoadConfigStep(i, e)
    \/ \E i \in DOMAIN thr : \E e \in BagToSet(thr[i]) : WritePointsStep(i, e)
    \/ \E i \in DOMAIN thr : \E e \in BagToSet(thr[i]) : BlockStep(i, e)

Spec == Init /\ [][Next]_vars

\* The sleep of line 309 always returns; nothing makes a network call return.
FairSpec == Spec /\ WF_vars(Startup) /\ WF_vars(Tick(MaxTicks))

\* One device of any configuration, any agent, one round of the loop, and a
\* configuration file that changes under the running scraper.
PollFiles == {DocFile(Doc(<<d>>, InfluxA)) : d \in DeviceDicts("r1")}

PollInit ==
    /\ InitMain
    /\ file \in PollFiles
    /\ agent \in {[h \in Hostnames |-> IF h = "r1" THEN a ELSE AgentGood] : a \in PollAgents}

PollNext ==
    \/ Startup
    \/ Tick(1)
    \/ \E i \in DOMAIN thr : \E e \in BagToSet(thr[i]) : StartPollStep(i, e)
    \/ \E i \in DOMAIN thr : \E e \in BagToSet(thr[i]) : SessionStep(i, e)
    \/ \E i \in DOMAIN thr : \E e \in BagToSet(thr[i]) : WalkStep(i, e)
    \/ \E i \in DOMAIN thr : \E e \in BagToSet(thr[i]) : GetStep(i, e)
    \/ \E i \in DOMAIN thr : \E e \in BagToSet(thr[i]) : BuildStep(i, e)
    \/ \E i \in DOMAIN thr : \E e \in BagToSet(thr[i]) : LoadConfigStep(i, e)
    \/ \E i \in DOMAIN thr : \E e \in BagToSet(thr[i]) : WritePointsStep(i, e)
    \/ \E i \in DOMAIN thr : \E e \in BagToSet(thr[i]) : BlockStep(i, e)
    \/ EditFile

PollSpec == PollInit /\ [][PollNext]_vars

\* The end-to-end scenario: the device entry as the scenario writes it, or the
\* same device with the username and password keys present and empty, in front
\* of the scenario's agent.
E2EFiles == {DocFile(Doc(<<d>>, InfluxA)) : d \in {E2EDevice, DeviceDict("r1", "public", "")}}

E2EInit ==
    /\ InitMain
    /\ file \in E2EFiles
    /\ agent = [h \in Hostnames |-> E2EAgent]

\* The loop runs MaxTicks rounds and the file can change under it.
E2ENext ==
    \/ Startup
    \/ Tick(MaxTicks)
    \/ \E i \in DOMAIN thr : \E e \in BagToSet(thr[i]) : StartPollStep(i, e)
    \/ \E i \in DOMAIN thr : \E e \in BagToSet(thr[i]) : SessionStep(i, e)
    \/ \E i \in DOMAIN thr : \E e \in BagToSet(thr[i]) : WalkStep(i, e)
    \/ \E i \in DOMAIN thr : \E e \in BagToSet(thr[i]) : GetStep(i, e)
    \/ \E i \in DOMAIN thr : \E e \in BagToSet(thr[i]) : BuildStep(i, e)
    \/ \E i \in DOMAIN thr : \E e \in BagToSet(thr[i]) : LoadConfigStep(i, e)
    \/ \E i \in DOMAIN thr : \E e \in BagToSet(thr[i]) : WritePointsStep(i, e)
    \/ \E i \in DOMAIN thr : \E e \in BagToSet(thr[i]) : BlockStep(i, e)
    \/ EditFile

E2ESpec == E2EInit /\ [][E2ENext]_vars

-----------------------------------------------------------------------------
(* Properties *)

\* C1: for every device, at most one poll is in flight at any time (a tick
\* that finds the previous poll of a device still running starts no second one).
C1_AtMostOneInFlight ==
    \A i \in DOMAIN thr : InFlight(i) <= 1

\* C2: a cycle that reaches publication calls upload_to_influx exactly once,
\* with a payload that holds a point for every interface found in the cycle.
C2_BatchHoldsEveryInterface ==
    \A t \in AllThreads :
        LET e == t[2]
        IN "upload_to_influx" \in Range(e.ran) =>
            /\ Cardinality({n \in DOMAIN e.ran : e.ran[n] = "upload_to_influx"}) = 1
            /\ \A n \in DOMAIN e.interfaces :
                 \E m \in DOMAIN e.payload :
                    e.payload[m].tags.interface = e.interfaces[n].key

\* What thread e of device i holds is computed from device i and its agent alone.
OwnResult(i, e) ==
    LET a == HostAgent(i)
        walked == WalkInterfaces(WalkRows(a))
        full == GetAll(a, walked)
    IN /\ e.interfaces \in {<<>>, walked, full}
       /\ e.payload # <<>> =>
            e.payload = <<Point(DeviceList[i].hostname, full[1].key, full[1].value)>>
       /\ e.result = Return("True") => e.payload # <<>> /\ e.written = <<e.payload>>
       /\ \A p \in Published(e) : p.tags.host = DeviceList[i].hostname

\* C3: a failed poll of one device keeps no device from being started in the
\* tick, every poll ends with what its own device and agent give, and the step
\* in which a poll fails changes no thread of another device.
C3_FailureIsolated ==
    /\ [](\A t \in AllThreads :
            FailedThread(t[2]) => \A j \in DOMAIN thr : Launched(j) = tick)
    /\ [](\A t \in AllThreads : OwnResult(t[1], t[2]))
    /\ [][\A i \in DOMAIN thr :
            CountIn(thr'[i], FailedThread) > CountIn(thr[i], FailedThread)
                => \A j \in DOMAIN thr \ {i} : thr'[j] = thr[j]]_vars

\* Two devices polled in the first tick: the poll of one failed, the poll of
\* the other wrote its point.
C3_Witness ==
    /\ tick = 1
    /\ \E t, u \in AllThreads :
        /\ t[1] # u[1]
        /\ FailedThread(t[2])
        /\ u[2].result = Return("True")
        /\ Published(u[2]) # {}

\* C4: no event of a device's poll stops the loop of main(): once in the loop
\* main stays in it, and from every round the next round follows, in which
\* every device is polled again, whether earlier polls failed, succeeded or
\* never return.
C4_SchedulerNeverStops ==
    /\ [][mainpc = "loop" => mainpc' = "loop"]_vars
    /\ \A k \in 0..(MaxTicks - 1) :
         (mainpc = "loop" /\ tick = k)
            ~> (mainpc = "loop" /\ tick = k + 1
                /\ \A i \in DOMAIN thr : Launched(i) = k + 1)

\* A later round has started a device again although an earlier poll of it
\* never returns and another of its polls failed.
C4_Witness ==
    /\ tick = MaxTicks
    /\ \E i \in DOMAIN thr :
        /\ \E e \in BagToSet(thr[i]) : e.pc = "blocked"
        /\ \E e \in BagToSet(thr[i]) : e.pc = "StartPoll"
    /\ \E t \in AllThreads : FailedThread(t[2])

\* C5: every tick starts the poll of every device, whatever the polls of the
\* other devices are doing: each device has been started once per tick.
C5_EveryDeviceStartedEachTick ==
    mainpc = "loop" => \A i \in DOMAIN thr : Launched(i) = tick

\* In the first tick the poll of one device blocks for ever and the poll of
\* another device has run to completion.
C5_Witness ==
    /\ tick = 1
    /\ \E t, u \in AllThreads :
        /\ t[1] # u[1]
        /\ t[2].pc = "blocked"
        /\ u[2].result = Return("True")

\* The index that the dict of thread e holds under interface name k
IndexOfName(e, k) ==
    LET n == CHOOSE m \in DOMAIN e.interfaces : e.interfaces[m].key = k
    IN e.interfaces[n].value.oid_index

\* C6: an index that a required table lacks gives no published point and no
\* error: no cycle ends in a conversion error, and every published point is
\* of an index that is present in every table.
C6_StrictIntersection ==
    \A t \in AllThreads :
        LET e == t[2]
            a == HostAgent(t[1])
        IN /\ e.failed # "int"
           /\ \A p \in Published(e) : Complete(a, IndexOfName(e, p.tags.interface))

\* The gets of thread e have all returned.
Joined(e) ==
    \/ e.pc \in {"build", "load_config", "write_points", "blocked"}
    \/ e.pc = "done" /\ e.failed \notin {"StartPoll", "SNMPpollv3", "Session", "walk", "get"}

\* C7: once the gets are through, every index that is present in all tables
\* has exactly one record in the dict, whose five fields are the agent's
\* values at that index.
C7_OneRecordPerIndex ==
    \A t \in AllThreads :
        LET e == t[2]
            a == HostAgent(t[1])
        IN Joined(e) =>
            \A x \in Indices :
                Complete(a, x) =>
                    /\ Cardinality({n \in DOMAIN e.interfaces :
                                      e.interfaces[n].value.oid_index = x}) = 1
                    /\ \A n \in DOMAIN e.interfaces :
                         e.interfaces[n].value.oid_index = x =>
                            \A m \in DOMAIN OidNames :
                               e.interfaces[n].value[OidNames[m]] = Held(OidNames[m], x)

\* C8: a thread that has passed StartPoll polls over SNMPv3 when the device
\* has a username, over SNMPv2 when it has none and has a community, and
\* otherwise has ended with the ValueError of StartPoll before any Session.
C8_UsernamePrecedence ==
    \A t \in AllThreads :
        LET e == t[2]
            device == DeviceList[t[1]]
        IN e.pc # "StartPoll" =>
            IF device.username # "" THEN e.ran[2] = "SNMPpollv3"
            ELSE IF device.community # "" THEN e.ran[2] = "SNMPpollv2"
            ELSE /\ e.pc = "done"
                 /\ e.result = Raise(<<"ValueError">>)
                 /\ e.ran = <<"StartPoll">>

\* A device with both a username and a community, polled over SNMPv3
C8_Witness ==
    \E t \in AllThreads :
        /\ DeviceList[t[1]].username # ""
        /\ DeviceList[t[1]].community # ""
        /\ Len(t[2].ran) >= 3
        /\ t[2].ran[2] = "SNMPpollv3"
        /\ t[2].ran[3] = "Session"

\* The calls whose failure comes from the device, the network, the
\* configuration file or the database
StageFailures == {"Session", "walk", "get", "int", "load_config", "write_points"}

\* C9: with either protocol, a cycle of a device whose agent has interfaces, in
\* which no session, walk, get, conversion, configuration read or write
\* fails, ends in success and has published points that carry the device's
\* hostname.
C9_BothProtocolsRunPipeline ==
    \A t \in AllThreads :
        LET e == t[2]
            device == DeviceList[t[1]]
        IN (Finished(e) /\ StartPollChoice(device) # "ValueError"
                /\ Len(HostAgent(t[1]).rows) > 0
                /\ e.failed \notin StageFailures) =>
            /\ e.result = Return("True")
            /\ Published(e) # {}
            /\ \A p \in Published(e) : p.tags.host = device.hostname

\* The errors in which a failure of a call can originate
OriginErrors(stage) ==
    CASE stage = "Session" -> {"EasySNMPConnectionError"}
      [] stage \in {"walk", "get"} -> {"EasySNMPTimeoutError"}
      [] stage = "int" -> {"ValueError"}
      [] stage = "load_config" -> {"FileNotFoundError", "YAMLError", "KeyError"}
      [] stage = "write_points" -> WriteErrors
      [] OTHER -> {}

\* C10: a cycle in which a stage failed has ended by raising, the raised
\* error's chain ends in the error of that stage, the failed stage is the
\* last call the cycle made, and nothing was written to the database.
C10_FailureStopsCycle ==
    \A t \in AllThreads :
        LET e == t[2]
        IN e.failed \in StageFailures =>
            /\ e.pc = "done"
            /\ e.result.how \in {"raise", "exit"}
            /\ Len(e.result.chain) >= 2
            /\ Last(e.result.chain) \in OriginErrors(e.failed)
            /\ Last(e.ran) = e.failed
            /\ e.written = <<>>
            /\ e.failed \in {"Session", "walk", "get", "int"} =>
                 "write_points" \notin Range(e.ran) /\ "upload_to_influx" \notin Range(e.ran)

\* A cycle whose get failed after a walk that found interfaces
C10_Witness ==
    \E t \in AllThreads :
        /\ t[2].failed = "get"
        /\ Len(t[2].interfaces) > 0
        /\ t[2].result = Raise(<<"ValueError", "EasySNMPTimeoutError">>)


\* C11: a counter that int() cannot convert costs its own record only: no
\* cycle ends in the conversion error, and a cycle that ran through has
\* published every interface whose four counters convert.
C11_BadCounterDropsOnlyItsRecord ==
    \A t \in AllThreads :
        LET e == t[2]
        IN /\ e.failed # "int"
           /\ (Finished(e) /\ e.failed = "none" /\ Joined(e)
                 /\ \E n \in DOMAIN e.interfaces : ConvertRaises(e.interfaces[n].value)) =>
                \A n \in DOMAIN e.interfaces :
                    ~ConvertRaises(e.interfaces[n].value) =>
                        \E p \in Published(e) : p.tags.interface = e.interfaces[n].key

\* C12: upload_to_influx calls write_points once, and a call whose write was
\* attempted and has ended has returned True or False: a failed write never
\* leaves it as an exception.
C12_FailedWriteReturnsFalse ==
    \A t \in AllThreads :
        LET e == t[2]
        IN /\ Cardinality({n \in DOMAIN e.ran : e.ran[n] = "write_points"}) <= 1
           /\ (Finished(e) /\ "write_points" \in Range(e.ran)) =>
                /\ e.result \in {Return("True"), Return("False")}
                /\ (e.result = Return("True")) = (e.written # <<>>)

\* The number of write_points calls a thread has made
Submissions(e) == Cardinality({n \in DOMAIN e.ran : e.ran[n] = "write_points"})

\* What a cycle holds of the database: at most one submission, of the payload
\* it built itself from its own dict, accepted at most once; a cycle that
\* failed has nothing accepted; a cycle that starts holds nothing.
CycleDelivery(i, e) ==
    /\ Submissions(e) <= 1
    /\ Len(e.written) <= Submissions(e)
    /\ \A n \in DOMAIN e.written :
          /\ e.written[n] = e.payload
          /\ e.payload = <<Point(DeviceList[i].hostname,
                                 e.interfaces[1].key, e.interfaces[1].value)>>
    /\ e.failed # "none" => e.written = <<>>
    /\ e.pc = "StartPoll" => e = NewThread

\* C13: at-most-once delivery per cycle: in every tick each cycle submits
\* its own payload at most once, a failed cycle has delivered nothing, a new
\* cycle starts from nothing, and a cycle that has ended is never touched
\* again (nothing is resubmitted or carried into a later cycle).
C13_AtMostOnceDelivery ==
    /\ [](\A t \in AllThreads : CycleDelivery(t[1], t[2]))
    /\ [][\A i \in DOMAIN thr \cap DOMAIN thr' :
            \A e \in BagToSet(thr[i]) :
                (Finished(e) \/ e.pc = "blocked") =>
                    CopiesIn(e, thr'[i]) >= CopiesIn(e, thr[i])]_vars

\* In the second tick, a device with one cycle that failed in the write and
\* delivered nothing, and another cycle that delivered its own payload.
C13_Witness ==
    /\ tick = 2
    /\ \E i \in DOMAIN thr :
          \E e1, e2 \in BagToSet(thr[i]) :
              /\ e1.failed = "write_points" /\ e1.payload # <<>> /\ e1.written = <<>>
              /\ e2.result = Return("True") /\ e2.written = <<e2.payload>>

\* The point of the end-to-end scenario (texts that come off the wire are
\* sequences of characters)
E2EPoint ==
    [measurement |-> "interface_stats",
     tags |-> [host |-> "r1", interface |-> "Gi0/1",
               interface_description |-> <<"G", "i", "0", "/", "1">>],
     fields |-> [ifin |-> 1000000, ifout |-> 2000000, ifinerr |-> 0, ifouterr |-> 0]]

\* C14: end to end, the device entry without username and password keys is
\* accepted by the configuration load (the scraper enters its loop with the
\* device in its list), and a poll cycle of r1 that ran through against the
\* scenario's agent has published exactly the scenario's point.
C14_EndToEnd ==
    /\ (file = DocFile(Doc(<<E2EDevice>>, InfluxA)) /\ mainpc # "start") =>
          /\ mainpc = "loop"
          /\ Len(DeviceList) = 1 /\ DeviceList[1].hostname = "r1"
    /\ \A t \in AllThreads :
          (t[2].result = Return("True") /\ DeviceList[t[1]].hostname = "r1") =>
              Published(t[2]) = {E2EPoint}

\* C15: a failed configuration load ends the process with a failure status
\* before any poll is started, and the status of a missing file differs from
\* the status of an unparseable document and from that of a document the
\* schema rejects.
C15_DistinctExitStatuses ==
    mainpc = "exited" =>
        /\ exitStatus # 0
        /\ tick = 0 /\ AllThreads = {}
        /\ file.kind = "missing" =>
              exitStatus \notin {ExitStatusOf(load_config(BadYamlFile)),
                                 ExitStatusOf(load_config(LintFailFile))}

\* C16: the configuration is what startup loaded, whatever happens to the
\* file afterwards: the device list never changes once the loop runs, every
\* client a cycle builds has the endpoint and credentials of the startup
\* document (InfluxA in every file the scraper starts with), and no cycle
\* fails for the state of the file.
C16_ConfigLoadedOnce ==
    /\ [][mainpc = "loop" => DeviceList' = DeviceList]_vars
    /\ [](\A t \in AllThreads :
            /\ t[2].client \in {NoClient, InfluxA}
            /\ t[2].failed # "load_config")

\* The first place of stage s in what a thread ran, 0 when it did not run
FirstAt(e, s) ==
    IF s \in Range(e.ran) THEN CHOOSE n \in DOMAIN e.ran :
                                  e.ran[n] = s /\ \A m \in 1..(n - 1) : e.ran[m] # s
    ELSE 0

\* Stage a ran, and ran before stage b, whenever b ran
Before(e, a, b) == FirstAt(e, b) > 0 => (FirstAt(e, a) > 0 /\ FirstAt(e, a) < FirstAt(e, b))

\* Every get of the cycle has been answered: each interface of the dict holds
\* a value for each of the five OIDs.
AllFetched(e) ==
    \A n \in DOMAIN e.interfaces : Range(OidNames) \subseteq DOMAIN e.interfaces[n].value

\* C17: within a cycle the ifName walk has ended before a get is issued,
\* every get of every discovered interface has been answered before a point
\* is built, and no write is issued before that.
C17_StageOrder ==
    \A t \in AllThreads :
        LET e == t[2]
        IN /\ Before(e, "walk", "get")
           /\ Before(e, "get", "int")
           /\ Before(e, "int", "write_points")
           /\ (e.pc = "get" /\ "get" \notin Range(e.ran)) =>
                 \A n \in DOMAIN e.interfaces : DOMAIN e.interfaces[n].value = {"oid_index"}
           /\ ("int" \in Range(e.ran) \/ e.payload # <<>>
                 \/ e.pc \in {"load_config", "write_points", "blocked"}) => AllFetched(e)

\* A cycle over two interfaces that has reached its write
C17_Witness ==
    \E t \in AllThreads :
        /\ Len(t[2].interfaces) = 2
        /\ "write_points" \in Range(t[2].ran)
        /\ t[2].written # <<>>

\* The walk of the cycle has returned (it ran and did not fail).
WalkReturned(e) == "walk" \in Range(e.ran) /\ e.failed # "walk" /\ e.pc # "walk"

\* C18: a cycle whose ifName walk returned no row is not an error: it issues
\* no get, builds nothing, calls neither upload_to_influx nor write_points,
\* raises nothing, and ends by returning with nothing published.
C18_EmptyWalkIsNoError ==
    \A t \in AllThreads :
        LET e == t[2]
        IN (WalkReturned(e) /\ Len(HostAgent(t[1]).rows) = 0) =>
              /\ e.interfaces = <<>>
              /\ Range(e.ran) \cap {"get", "int", "upload_to_influx", "load_config",
                                    "write_points"} = {}
              /\ e.failed = "none"
              /\ e.result.how # "raise" /\ e.result.how # "exit"
              /\ e.pc \in {"get", "build", "done"}
              /\ Finished(e) => e.result = Return("None")
              /\ e.payload = <<>> /\ Published(e) = {}

\* A cycle over an agent with no interface that has ended
C18_Witness ==
    \E t \in AllThreads :
        /\ Len(HostAgent(t[1]).rows) = 0
        /\ WalkReturned(t[2])
        /\ Finished(t[2])

\* C19: a call of SNMPpollv2 or SNMPpollv3 that does not return ends in a
\* ValueError whose cause is the error it started from; nothing else, a
\* process-exit request included, leaves a device's poll.
C19_OnlyValueErrorEscapes ==
    \A t \in AllThreads :
        LET e == t[2]
        IN (Finished(e) /\ e.result.how # "return"
              /\ Range(e.ran) \cap {"SNMPpollv2", "SNMPpollv3"} # {}) =>
                /\ e.result.how = "raise"
                /\ Len(e.result.chain) >= 2
                /\ e.result.chain[1] = "ValueError"

====
